---- MODULE Spec2Model ----
(***************************************************************************)
(* Model of the fetch orchestration engine of cloudquery (package core):   *)
(* Fetch, its per-provider worker goroutines, runProviderFetch,            *)
(* executeFetch and the resource-name normalisation.                       *)
(*                                                                         *)
(* Strings that the code inspects character by character (resource names)  *)
(* are sequences of one-character strings; Go's nil slice is <<>>.         *)
(***************************************************************************)
EXTENDS Integers, Sequences, FiniteSets, TLC

VARIABLES
    providersInfo,   \* opts.ProvidersInfo: 1..NumProviders -> ProviderInfo
    hasDeadline,     \* ctx.Deadline() reports a deadline
    fetchPc,         \* position of Fetch
    loopIdx,         \* index of the launch loop of Fetch (line 222)
    wg,              \* sync.WaitGroup counter
    fetchSummaries,  \* the results channel: sequence of fetchResult
    diags,           \* Fetch's local diags
    response,        \* FetchResponse.ProviderFetchSummary: display key -> summary
    totalFetched,    \* FetchResponse.TotalFetched
    returned,        \* what Fetch returned: "none", "response" or "nil"
    retDiags,        \* the diagnostics Fetch returned
    crashed,         \* the process died of an unrecovered panic
    wpc,             \* position of each provider's worker goroutine
    plugin,          \* per provider: "none", "open", "closed"
    closeCount,      \* per provider: calls of pm.ClosePlugin
    summary,         \* per provider: the *ProviderFetchSummary of its runner
    wdiags,          \* per provider: diags of runProviderFetch, then of the goroutine
    fdiags,          \* per provider: diags of executeFetch
    stream,          \* per provider: messages received so far on the stream
    events,          \* per provider: the calls issued and their outcomes, in order
    saved,           \* per provider: the SaveFetchSummary calls: record and outcome
    sends,           \* per provider: results sent to the channel so far
    hasCallback,     \* opts.UpdateCallback is not nil
    updates,         \* per provider: the FetchUpdates handed to the callback, in order
    nAll,            \* resolver call: the keys of the catalog, in iteration order
    nRequested,      \* resolver call: the requested list
    nSkip,           \* resolver call: the skip list
    nPc,             \* resolver call: position of the caller
    nOut,            \* resolver call: what doNormalizeResources returned
    nAgain,          \* resolver call: what it returned for its own output
    pool,            \* the messages a provider's stream may deliver
    dsnURI,          \* Fetch's dsnURI, the result of parseDSN (line 217)
    cfgDSN,          \* per provider: Connection.DSN of its configure request
    cProviders,      \* config.Providers: the provider blocks of a configuration
    cPc,             \* position of ProcessConfig
    cDiags           \* the diagnostics of validateProvidersBlock

vars == << providersInfo, hasDeadline, fetchPc, loopIdx, wg, fetchSummaries,
           diags, response, totalFetched, returned, retDiags, crashed, wpc,
           plugin, closeCount, summary, wdiags, fdiags, stream, events, saved,
           sends, hasCallback, updates, nAll, nRequested, nSkip, nPc, nOut,
           nAgain, pool, dsnURI, cfgDSN, cProviders, cPc, cDiags >>

fetchVars == << fetchPc, loopIdx, diags, response, totalFetched, returned, retDiags >>

workerVars ==
    << wpc, plugin, closeCount, summary, wdiags, fdiags, stream, events, saved, sends,
       updates >>

normVars == << nAll, nRequested, nSkip, nPc, nOut, nAgain >>

confVars == << cProviders, cPc, cDiags >>

----------------------------------------------------------------------------
(* Bounds of the model *)

NumProviders == 2
MaxMsgs == 2

----------------------------------------------------------------------------
(* FetchStatus, lines 105-111; 0 is the zero value of the type *)

FetchFailed == 1
FetchConfigureFailed == 2
FetchCanceled == 3
FetchFinished == 4
FetchPartial == 5

TerminalStatuses ==
    {FetchFailed, FetchConfigureFailed, FetchCanceled, FetchFinished, FetchPartial}

Nil == [nil |-> TRUE]

----------------------------------------------------------------------------
(* Diagnostics (cq-provider-sdk/provider/diag), as the calls in the source  *)
(* build them: FromError gives severity ERROR unless WithSeverity is given. *)

Diag(sev, typ, sum) ==
    [severity |-> sev, type |-> typ, summary |-> sum, resource |-> <<>>]

(* diag.WithResourceName *)
WithResourceName(d, name) == [i \in 1..Len(d) |-> [d[i] EXCEPT !.resource = name]]

FromError(typ, sum) == << Diag("ERROR", typ, sum) >>

HasErrors(d) == \E i \in 1..Len(d) : d[i].severity \in {"ERROR", "PANIC"}

HasDiags(d) == Len(d) > 0

(* cqerrors.IsCancelation / CancelationDiag: the dedicated predicate and    *)
(* the cancellation-specific diagnostic.                                    *)
IsCancelation(err) == err = "canceled"

CancelationDiag(err) == << Diag("ERROR", "CANCELED", err) >>

(* analytics.FilterTelemetryEvents: the diagnostics left after taking out   *)
(* the telemetry events.                                                    *)
FilterTelemetryEvents(d) == SelectSeq(d, LAMBDA x : x.type # "TELEMETRY")

(* convertToConfigureDiags / convertToFetchDiags keep one diagnostic per    *)
(* input diagnostic with its severity and type.                             *)
convertToConfigureDiags(d) ==
    [i \in 1..Len(d) |-> [d[i] EXCEPT !.summary = << "configure", d[i].summary >>]]

convertToFetchDiags(d) ==
    [i \in 1..Len(d) |-> [d[i] EXCEPT !.summary = << "fetch", d[i].summary >>]]

----------------------------------------------------------------------------
(* Strings as character sequences *)

CharCode(c) ==
    CASE c = "*" -> 42
      [] c = "." -> 46
      [] c = "a" -> 97
      [] c = "b" -> 98
      [] c = "c" -> 99
      [] OTHER   -> 122

RECURSIVE StrLess(_, _)
StrLess(s, t) ==
    IF Len(t) = 0 THEN FALSE
    ELSE IF Len(s) = 0 THEN TRUE
    ELSE IF CharCode(Head(s)) # CharCode(Head(t))
         THEN CharCode(Head(s)) < CharCode(Head(t))
         ELSE StrLess(Tail(s), Tail(t))

(* strings.HasPrefix *)
HasPrefix(s, prefix) ==
    /\ Len(prefix) <= Len(s)
    /\ SubSeq(s, 1, Len(prefix)) = prefix

(* strings.Index(s, ".*"): 0-based position of the first ".*", or -1 *)
IndexDotStar(s) ==
    LET hits == {i \in 1..(Len(s) - 1) : s[i] = "." /\ s[i + 1] = "*"}
    IN  IF hits = {} THEN -1
        ELSE (CHOOSE i \in hits : \A j \in hits : i <= j) - 1

(* strings.Contains(s, "*") *)
ContainsStar(s) == \E i \in 1..Len(s) : s[i] = "*"

SeqToSet(s) == {s[i] : i \in 1..Len(s)}

RECURSIVE SortedSeq(_)
SortedSeq(S) ==
    IF S = {} THEN <<>>
    ELSE LET m == CHOOSE x \in S : \A y \in S : y = x \/ StrLess(x, y)
         IN  << m >> \o SortedSeq(S \ {m})

(* cqsort.Unique: the names sorted, each once *)
Unique(s) == SortedSeq(SeqToSet(s))

(* Line 449 returning useRes: the skip list is not taken out *)
SubtractNothing(x, y) == x

(* funk.Subtract(x, y): the elements of x that are not in y, in x's order *)
Subtract(x, y) == SelectSeq(x, LAMBDA e : e \notin SeqToSet(y))

----------------------------------------------------------------------------
(* Resource name resolver, lines 446-526.  all is the sequence of the keys  *)
(* of the catalog map in the order a range over the map yields them, which  *)
(* Go leaves unspecified.  A result is [res |-> list, diags |-> diagnostics]. *)

(* pattern[:wildPos]: the dot is left out of the prefix *)
GlobPrefixWithoutDot(pattern, wildPos) == SubSeq(pattern, 1, wildPos)

(* pattern[:wildPos+1], line 517: the prefix with its "." *)
GlobPrefix(pattern, wildPos) == SubSeq(pattern, 1, wildPos + 1)

matchResourceGlob(pattern, all) ==
    LET wildPos == IndexDotStar(pattern)
    IN  IF wildPos > 0
        THEN IF wildPos # Len(pattern) - 2
             THEN [res |-> <<>>,
                   diags |-> FromError("USER", "invalid wildcard syntax")]
             ELSE [res |-> SelectSeq(all, LAMBDA k :
                                      HasPrefix(k, GlobPrefix(pattern, wildPos))),
                   diags |-> <<>>]
        ELSE IF wildPos = 0 \/ ContainsStar(pattern)
             THEN [res |-> <<>>,
                   diags |-> FromError("USER", "invalid wildcard syntax")]
             ELSE [res |-> <<>>, diags |-> <<>>]

(* The check of line 478 left out: a repeated entry goes unnoticed *)
IsDuplicateNever(r, seen) == FALSE

(* Line 478: the entry was seen before *)
IsDuplicate(r, seen) == r \in seen

(* The case of line 496 left out: a glob without matches resolves to nothing *)
NoMatchIgnored(m) == FALSE

(* Line 496 *)
NoMatch(m) == Len(m.res) = 0

(* The check of line 489 left out: "*" beside other entries goes on to the  *)
(* glob matcher                                                             *)
IsLoneWildcardNever(r) == FALSE

(* Line 489: the entry is the wildcard (reached only in a longer list) *)
IsLoneWildcard(r) == r = << "*" >>

RECURSIVE globLoop(_, _, _, _, _)
globLoop(requested, i, result, seen, all) ==
    IF i > Len(requested) THEN [res |-> Unique(result), diags |-> <<>>]
    ELSE LET r == requested[i]
         IN  IF r = <<>>
             THEN [res |-> <<>>, diags |-> FromError("USER", "invalid resource")]
             ELSE IF IsDuplicate(r, seen)
             THEN [res |-> <<>>, diags |-> FromError("USER", "resource is duplicate")]
             ELSE IF r \in SeqToSet(all)
             THEN globLoop(requested, i + 1, Append(result, r), seen \cup {r}, all)
             ELSE IF IsLoneWildcard(r)
             THEN [res |-> <<>>,
                   diags |-> FromError("USER", "wildcard resource must be the only one in the list")]
             ELSE LET m == matchResourceGlob(r, all)
                  IN  IF HasDiags(m.diags) THEN [res |-> <<>>, diags |-> m.diags]
                      ELSE IF NoMatch(m)
                      THEN [res |-> <<>>,
                            diags |-> FromError("USER", "resource does not exist")]
                      ELSE globLoop(requested, i + 1, result \o m.res, seen \cup {r}, all)

(* The expansion of lines 465-470 left out: "*" is taken as a name *)
doGlobResourcesNoExpansion(requested, allowWild, all) ==
    IF allowWild /\ \E i \in 1..Len(requested) : requested[i] = << "*" >>
    THEN [res |-> <<>>,
          diags |-> FromError("USER", "wildcard resource can only be in the requested resources list")]
    ELSE globLoop(requested, 1, <<>>, {}, all)

(* Line 465 without requested[0] == "*": any one-entry list is expanded *)
doGlobResourcesAnySingle(requested, allowWild, all) ==
    IF allowWild /\ \E i \in 1..Len(requested) : requested[i] = << "*" >>
    THEN [res |-> <<>>,
          diags |-> FromError("USER", "wildcard resource can only be in the requested resources list")]
    ELSE IF ~allowWild /\ Len(requested) = 1
    THEN globLoop(all, 1, <<>>, {}, all)
    ELSE globLoop(requested, 1, <<>>, {}, all)

doGlobResources(requested, allowWild, all) ==
    IF allowWild /\ \E i \in 1..Len(requested) : requested[i] = << "*" >>
    THEN [res |-> <<>>,
          diags |-> FromError("USER", "wildcard resource can only be in the requested resources list")]
    ELSE IF ~allowWild /\ Len(requested) = 1 /\ requested[1] = << "*" >>
    THEN globLoop(all, 1, <<>>, {}, all)
    ELSE globLoop(requested, 1, <<>>, {}, all)

doNormalizeResources(resources, skip, all) ==
    LET useRes == doGlobResources(resources, FALSE, all)
        skipRes == doGlobResources(skip, TRUE, all)
    IN  [res |-> Subtract(useRes.res, skipRes.res),
         diags |-> useRes.diags \o skipRes.diags]

----------------------------------------------------------------------------
(* Inputs of one Fetch call *)

(* The catalog every provider's GetProviderSchema answers with, as the      *)
(* sequence of its keys.                                                    *)
Catalog == << << "b", ".", "b" >>, << "a" >>, << "b", ".", "a" >> >>

(* The (Provider, Config) pairs the options may hold: a wildcard request,   *)
(* a provider with zero resources, a request for a name the catalog lacks, *)
(* and a glob with a skip list.  Name and Alias are character sequences.   *)
ProviderInfos ==
    { [Name |-> << "a" >>, Alias |-> <<>>,
       Resources |-> << << "*" >> >>, SkipResources |-> <<>>],
      [Name |-> << "a" >>, Alias |-> <<>>,
       Resources |-> <<>>, SkipResources |-> <<>>],
      [Name |-> << "a" >>, Alias |-> << "b" >>,
       Resources |-> << << "c" >> >>, SkipResources |-> <<>>],
      [Name |-> << "a" >>, Alias |-> << "b" >>,
       Resources |-> << << "b", ".", "*" >> >>,
       SkipResources |-> << << "b", ".", "a" >> >>] }

(* The messages a provider's stream may deliver (cqproto.FetchResourcesResponse) *)
Messages ==
    { [ResourceName |-> << "a" >>, ResourceCount |-> 1, Error |-> "",
       Summary |-> [Status |-> "COMPLETE", ResourceCount |-> 1, Diagnostics |-> <<>>]],
      [ResourceName |-> << "b", ".", "b" >>, ResourceCount |-> 2, Error |-> "boom",
       Summary |-> [Status |-> "FAILED", ResourceCount |-> 0,
                    Diagnostics |-> << Diag("ERROR", "RESOLVING", "table failed") >>]] }

(* Further messages: a second report for resource a with another status and *)
(* an error diagnostic but no error string, and a second report for b.b     *)
(* with an error string and no diagnostic.                                  *)
MoreMessages ==
    { [ResourceName |-> << "a" >>, ResourceCount |-> 3, Error |-> "",
       Summary |-> [Status |-> "PARTIAL", ResourceCount |-> 3,
                    Diagnostics |-> << Diag("ERROR", "ACCESS", "denied") >>]],
      [ResourceName |-> << "b", ".", "b" >>, ResourceCount |-> 0, Error |-> "late",
       Summary |-> [Status |-> "CANCELED", ResourceCount |-> 0, Diagnostics |-> <<>>]] }

Providers == 1..NumProviders

(* ProviderFetchSummary.String, lines 138-143 *)
String(p) ==
    IF p.Alias # <<>> THEN p.Name \o << "(" >> \o p.Alias \o << ")" >>
    ELSE p.Name

(* A channel sized one short of the provider count *)
ChanCapShort == Len(providersInfo) - 1

(* len(opts.ProvidersInfo), the capacity of the results channel, line 213 *)
ChanCap == Len(providersInfo)

(* ProviderFetchSummary.Diagnostics, lines 145-151: the diagnostics of the  *)
(* fetched resources (the order follows the map's iteration).               *)
RECURSIVE ConcatDiags(_, _)
ConcatDiags(fr, keys) ==
    IF keys = {} THEN <<>>
    ELSE LET k == CHOOSE x \in keys : TRUE
         IN  fr[k].Diagnostics \o ConcatDiags(fr, keys \ {k})

SummaryDiagnostics(ps) == ConcatDiags(ps.FetchedResources, DOMAIN ps.FetchedResources)

(* createFetchSummary, lines 536-551 *)
createFetchSummary(ps) ==
    [IsSuccess |-> ~HasErrors(SummaryDiagnostics(ps)),
     TotalResourceCount |-> ps.TotalResourcesFetched,
     ProviderName |-> ps.Name,
     ProviderAlias |-> ps.Alias,
     Resources |-> DOMAIN ps.FetchedResources]

(* The summary literal of lines 303-309 and 313-319 *)
EarlySummary(info, sts) ==
    [Name |-> info.Name, Alias |-> info.Alias,
     TotalResourcesFetched |-> 0,
     FetchedResources |-> <<>>,
     Status |-> sts,
     Duration |-> "zero"]

(* The summary executeFetch starts from, lines 332-339 *)
NewSummary(info) ==
    [Name |-> info.Name, Alias |-> info.Alias,
     TotalResourcesFetched |-> 0,
     FetchedResources |-> <<>>,
     Status |-> FetchFinished,
     Duration |-> "zero"]

----------------------------------------------------------------------------
Init ==
    /\ providersInfo \in [Providers -> ProviderInfos]
    /\ hasDeadline \in BOOLEAN
    /\ fetchPc = "begin"
    /\ loopIdx = 1
    /\ wg = 0
    /\ fetchSummaries = <<>>
    /\ diags = <<>>
    /\ response = <<>>
    /\ totalFetched = 0
    /\ returned = "none"
    /\ retDiags = <<>>
    /\ crashed = FALSE
    /\ wpc = [p \in Providers |-> "idle"]
    /\ plugin = [p \in Providers |-> "none"]
    /\ closeCount = [p \in Providers |-> 0]
    /\ summary = [p \in Providers |-> Nil]
    /\ wdiags = [p \in Providers |-> <<>>]
    /\ fdiags = [p \in Providers |-> <<>>]
    /\ stream = [p \in Providers |-> <<>>]
    /\ events = [p \in Providers |-> <<>>]
    /\ saved = [p \in Providers |-> <<>>]
    /\ sends = [p \in Providers |-> 0]
    /\ hasCallback = FALSE
    /\ updates = [p \in Providers |-> <<>>]
    /\ nAll = <<>>
    /\ nRequested = <<>>
    /\ nSkip = <<>>
    /\ nPc = "off"
    /\ nOut = Nil
    /\ nAgain = Nil
    /\ pool = Messages
    /\ dsnURI = ""
    /\ cfgDSN = [p \in Providers |-> "none"]
    /\ cProviders = <<>>
    /\ cPc = "off"
    /\ cDiags = <<>>

----------------------------------------------------------------------------
(* Fetch, lines 198-261 *)

(* Lines 198-221: the fetch id, the results channel and the DSN.  A failure *)
(* of uuid.NewUUID or of parseDSN returns nil with an INTERNAL diagnostic.  *)
FetchBegin ==
    /\ ~crashed
    /\ fetchPc = "begin"
    /\ \E outcome \in {"ok", "uuidError", "dsnError"} :
         IF outcome = "ok"
         THEN /\ fetchPc' = "loop"
              /\ dsnURI' = "dsn"
              /\ UNCHANGED << returned, retDiags >>
         ELSE /\ fetchPc' = "done"
              /\ returned' = "nil"
              /\ retDiags' = FromError("INTERNAL", outcome)
              /\ UNCHANGED dsnURI
    /\ UNCHANGED << confVars, pool, cfgDSN, normVars, hasCallback, providersInfo, hasDeadline, loopIdx, wg, fetchSummaries, diags,
                    response, totalFetched, crashed >>
    /\ UNCHANGED workerVars

(* Line 225 without WithSeverity: the diagnostic is an error *)
SkipDiagAsError == FromError("INTERNAL", "skipping provider which configured with 0 resources to fetch")

(* The diagnostic of line 225 *)
SkipDiag == << Diag("WARNING", "INTERNAL", "skipping provider which configured with 0 resources to fetch") >>

(* Lines 223-227: a provider with zero resources is skipped with a warning *)
FetchSkip ==
    /\ ~crashed
    /\ fetchPc = "loop"
    /\ loopIdx <= NumProviders
    /\ Len(providersInfo[loopIdx].Resources) = 0
    /\ diags' = diags \o SkipDiag
    /\ loopIdx' = loopIdx + 1
    /\ UNCHANGED << confVars, pool, dsnURI, cfgDSN, normVars, hasCallback, providersInfo, hasDeadline, fetchPc, wg, fetchSummaries,
                    response, totalFetched, returned, retDiags, crashed >>
    /\ UNCHANGED workerVars

(* Lines 228-242: wg.Add(1) and the go statement *)
FetchLaunch ==
    /\ ~crashed
    /\ fetchPc = "loop"
    /\ loopIdx <= NumProviders
    /\ Len(providersInfo[loopIdx].Resources) # 0
    /\ wg' = wg + 1
    /\ wpc' = [wpc EXCEPT ![loopIdx] = "create"]
    /\ loopIdx' = loopIdx + 1
    /\ UNCHANGED << confVars, pool, dsnURI, cfgDSN, normVars, hasCallback, providersInfo, hasDeadline, fetchPc, fetchSummaries, diags,
                    response, totalFetched, returned, retDiags, crashed >>
    /\ UNCHANGED << plugin, closeCount, summary, wdiags, fdiags, stream, events, saved, sends, updates >>

(* Lines 244-250: wg.Wait returns when the counter is zero; the response is *)
(* built and the channel closed.                                            *)
FetchWait ==
    /\ ~crashed
    /\ fetchPc = "loop"
    /\ loopIdx > NumProviders
    /\ wg = 0
    /\ fetchPc' = "drain"
    /\ response' = <<>>
    /\ totalFetched' = 0
    /\ UNCHANGED << confVars, pool, dsnURI, cfgDSN, normVars, hasCallback, providersInfo, hasDeadline, loopIdx, wg, fetchSummaries, diags,
                    returned, retDiags, crashed >>
    /\ UNCHANGED workerVars

(* Line 252: the summary is stored under its display key; prov records     *)
(* which worker's summary the pointer refers to.                            *)
DrainEntry(resp, ps) ==
    (String(ps.summary) :> [prov |-> ps.prov, summary |-> ps.summary]) @@ resp

(* Line 256 with = for +=: the last provider's count replaces the total *)
DrainTotalOverwrites(total, ps) == ps.summary.TotalResourcesFetched

(* Line 256 *)
DrainTotal(total, ps) == total + ps.summary.TotalResourcesFetched

(* Lines 251-257, one iteration: ps.summary.String() on a nil summary is a  *)
(* nil pointer dereference, which panics.                                   *)
FetchDrain ==
    /\ ~crashed
    /\ fetchPc = "drain"
    /\ Len(fetchSummaries) > 0
    /\ LET ps == Head(fetchSummaries)
       IN  IF ps.summary = Nil
           THEN /\ crashed' = TRUE
                /\ fetchPc' = "panicked"
                /\ UNCHANGED << response, diags, totalFetched, fetchSummaries >>
           ELSE /\ response' = DrainEntry(response, ps)
                /\ diags' = IF HasDiags(ps.diags) THEN diags \o ps.diags ELSE diags
                /\ totalFetched' = DrainTotal(totalFetched, ps)
                /\ fetchSummaries' = Tail(fetchSummaries)
                /\ UNCHANGED << crashed, fetchPc >>
    /\ UNCHANGED << confVars, pool, dsnURI, cfgDSN, normVars, hasCallback, providersInfo, hasDeadline, loopIdx, wg, returned, retDiags >>
    /\ UNCHANGED workerVars

(* Lines 258-260: the channel is drained; the response is returned *)
FetchReturn ==
    /\ ~crashed
    /\ fetchPc = "drain"
    /\ Len(fetchSummaries) = 0
    /\ retDiags' = FilterTelemetryEvents(diags)
    /\ returned' = "response"
    /\ fetchPc' = "done"
    /\ UNCHANGED << confVars, pool, dsnURI, cfgDSN, normVars, hasCallback, providersInfo, hasDeadline, loopIdx, wg, fetchSummaries, diags,
                    response, totalFetched, crashed >>
    /\ UNCHANGED workerVars

----------------------------------------------------------------------------
(* The worker goroutine of one provider, lines 229-242, and its runner      *)
(* runProviderFetch / executeFetch, lines 263-429.                          *)

Log(p, call, outcome) == [events EXCEPT ![p] = Append(@, << call, outcome >>)]

(* The deferred close left out: the plugin stays open *)
DeferredCloseMissing(pl) == pl

(* defer pm.ClosePlugin(providerPlugin), line 278: runs when the runner     *)
(* returns, on every path after the plugin was created.                     *)
DeferredClose(pl) == IF pl = "open" THEN "closed" ELSE pl

(* runProviderFetch returns (s, d) to the goroutine; the deferred close runs *)
RunnerReturn(p, s, d) ==
    /\ summary' = [summary EXCEPT ![p] = s]
    /\ wdiags' = [wdiags EXCEPT ![p] = d]
    /\ plugin' = [plugin EXCEPT ![p] = DeferredClose(@)]
    /\ closeCount' = [closeCount EXCEPT
                        ![p] = IF DeferredClose(plugin[p]) # plugin[p] THEN @ + 1 ELSE @]
    /\ wpc' = [wpc EXCEPT ![p] = "afterRun"]

(* executeFetch returns through its deferred Duration assignment (line 344) *)
(* and runProviderFetch adds the converted fetch diagnostics (line 324).    *)
ExecuteReturn(p, s, cfgDiags, fetchDiags) ==
    RunnerReturn(p, [s EXCEPT !.Duration = "sinceFetchStart"],
                 cfgDiags \o convertToFetchDiags(fetchDiags))

(* Lines 269-278 *)
CreatePlugin(p) ==
    /\ ~crashed
    /\ wpc[p] = "create"
    /\ \E err \in {"nil", "error"} :
         /\ events' = Log(p, "CreatePlugin", err)
         /\ IF err # "nil"
            THEN /\ summary' = [summary EXCEPT ![p] = Nil]
                 /\ wdiags' = [wdiags EXCEPT ![p] = FromError("INTERNAL", err)]
                 /\ wpc' = [wpc EXCEPT ![p] = "afterRun"]
                 /\ UNCHANGED << plugin, closeCount >>
            ELSE /\ plugin' = [plugin EXCEPT ![p] = "open"]
                 /\ wpc' = [wpc EXCEPT ![p] = "configure"]
                 /\ UNCHANGED << summary, wdiags, closeCount >>
    /\ UNCHANGED << fdiags, stream, saved, sends, updates >>
    /\ UNCHANGED << confVars, pool, dsnURI, cfgDSN, normVars, hasCallback, providersInfo, hasDeadline, wg, fetchSummaries, crashed >>
    /\ UNCHANGED fetchVars

(* Line 295 left out: a cancellation is reported as any other error *)
ConfigureErrorStatusNoCancel(err) == FetchConfigureFailed

(* Lines 295-301: the status and the diagnostic of a failed configure call *)
ConfigureErrorStatus(err) ==
    IF IsCancelation(err) THEN FetchCanceled ELSE FetchConfigureFailed

ConfigureErrorDiag(err) ==
    IF IsCancelation(err) THEN CancelationDiag(err) ELSE FromError("INTERNAL", err)

(* What resp.Diagnostics of a configure response may hold *)
ConfigureDiagnostics ==
    { <<>>,
      << Diag("WARNING", "USER", "deprecated option") >>,
      << Diag("ERROR", "USER", "bad configuration") >> }

(* The request built without the connection: DSN is left empty *)
RequestDSNEmpty(uri) == ""

(* Connection: cqproto.ConnectionDetails{DSN: dsnURI}, lines 283-285 *)
RequestDSN(uri) == uri

(* Lines 280-322 *)
ConfigureProvider(p) ==
    /\ ~crashed
    /\ wpc[p] = "configure"
    /\ cfgDSN' = [cfgDSN EXCEPT ![p] = RequestDSN(dsnURI)]
    /\ \E err \in {"nil", "error", "canceled"} :
       \E respDiags \in IF err = "nil" THEN ConfigureDiagnostics ELSE { <<>> } :
         /\ events' = Log(p, "ConfigureProvider",
                          IF HasErrors(respDiags) THEN "diagnostics" ELSE err)
         /\ IF err # "nil"
            THEN RunnerReturn(p, EarlySummary(providersInfo[p], ConfigureErrorStatus(err)),
                              ConfigureErrorDiag(err))
            ELSE IF HasErrors(convertToConfigureDiags(respDiags))
            THEN RunnerReturn(p, EarlySummary(providersInfo[p], FetchConfigureFailed),
                              convertToConfigureDiags(respDiags))
            ELSE /\ summary' = [summary EXCEPT ![p] = NewSummary(providersInfo[p])]
                 /\ wdiags' = [wdiags EXCEPT ![p] = convertToConfigureDiags(respDiags)]
                 /\ wpc' = [wpc EXCEPT ![p] = "schema"]
                 /\ UNCHANGED << plugin, closeCount >>
    /\ UNCHANGED << fdiags, stream, saved, sends, updates >>
    /\ UNCHANGED << confVars, pool, dsnURI, normVars, hasCallback, providersInfo, hasDeadline, wg, fetchSummaries, crashed >>
    /\ UNCHANGED fetchVars

(* normalizeResources, lines 436-443, on the outcome of GetProviderSchema *)
normalizeResources(err, resources, skip) ==
    IF err # "nil" THEN [res |-> <<>>, diags |-> FromError("INTERNAL", err)]
    ELSE doNormalizeResources(resources, skip, Catalog)

(* The check of line 349 left out: a failed normalisation goes unnoticed *)
NormalizationCheckMissing(n) == FALSE

(* Line 349 *)
NormalizationFailed(n) == HasErrors(n.diags)

(* Lines 347-352: the schema request and the normalisation of the resources *)
GetProviderSchema(p) ==
    /\ ~crashed
    /\ wpc[p] = "schema"
    /\ \E err \in {"nil", "error", "canceled"} :
         LET n == normalizeResources(err, providersInfo[p].Resources,
                                     providersInfo[p].SkipResources)
         IN  /\ events' = Log(p, "GetProviderSchema", err)
             /\ IF NormalizationFailed(n)
                THEN ExecuteReturn(p, [summary[p] EXCEPT !.Status = FetchFailed],
                                   wdiags[p], n.diags)
                ELSE /\ wpc' = [wpc EXCEPT ![p] = "open"]
                     /\ UNCHANGED << summary, wdiags, plugin, closeCount >>
    /\ UNCHANGED << fdiags, stream, saved, sends, updates >>
    /\ UNCHANGED << confVars, pool, dsnURI, cfgDSN, normVars, hasCallback, providersInfo, hasDeadline, wg, fetchSummaries, crashed >>
    /\ UNCHANGED fetchVars

(* Lines 354-366: the streaming fetch request *)
FetchResources(p) ==
    /\ ~crashed
    /\ wpc[p] = "open"
    /\ \E err \in {"nil", "error", "canceled"} :
         /\ events' = Log(p, "FetchResources", err)
         /\ IF err # "nil"
            THEN ExecuteReturn(p, [summary[p] EXCEPT !.Status = FetchFailed],
                               wdiags[p], FromError("INTERNAL", err))
            ELSE /\ wpc' = [wpc EXCEPT ![p] = "recv"]
                 /\ UNCHANGED << summary, wdiags, plugin, closeCount >>
    /\ UNCHANGED << fdiags, stream, saved, sends, updates >>
    /\ UNCHANGED << confVars, pool, dsnURI, cfgDSN, normVars, hasCallback, providersInfo, hasDeadline, wg, fetchSummaries, crashed >>
    /\ UNCHANGED fetchVars

(* Line 388 guarded by a lookup: the first entry for a name is kept *)
ApplyMessageKeepsFirst(s, resp) ==
    [s EXCEPT
       !.TotalResourcesFetched = @ + resp.ResourceCount,
       !.FetchedResources =
           @ @@ (resp.ResourceName :>
                   [Status |-> resp.Summary.Status,
                    ResourceCount |-> resp.Summary.ResourceCount,
                    Diagnostics |-> FilterTelemetryEvents(resp.Summary.Diagnostics)])]

(* Lines 386-403: what one normal message does to the summary *)
ApplyMessage(s, resp) ==
    [s EXCEPT
       !.TotalResourcesFetched = @ + resp.ResourceCount,
       !.FetchedResources =
           (resp.ResourceName :>
               [Status |-> resp.Summary.Status,
                ResourceCount |-> resp.Summary.ResourceCount,
                Diagnostics |-> FilterTelemetryEvents(resp.Summary.Diagnostics)]) @@ @]

(* Lines 395-403: what one normal message adds to the diagnostics *)
MessageDiags(resp) ==
    (IF resp.Error # ""
     THEN WithResourceName(FromError("RESOLVING", resp.Error), resp.ResourceName)
     ELSE <<>>)
    \o FilterTelemetryEvents(resp.Summary.Diagnostics)

(* Line 419 left out: a cancelled receive is reported as any other error *)
RecvErrorStatusNoCancel(err) == FetchFailed

(* Lines 419-426: the status and the diagnostic of a failed receive *)
RecvErrorStatus(err) == IF IsCancelation(err) THEN FetchCanceled ELSE FetchFailed

RecvErrorDiag(err) ==
    IF IsCancelation(err) THEN CancelationDiag(err) ELSE FromError("INTERNAL", err)

(* diags.BySeverity(diag.WARNING, diag.ERROR, diag.PANIC).Len(), line 381 *)
CountBySeverity(d) ==
    Len(SelectSeq(d, LAMBDA x : x.severity \in {"WARNING", "ERROR", "PANIC"}))

(* Lines 374-383: the FetchUpdate of a normal message, built from the       *)
(* response and from the diagnostics held when the callback is called.      *)
(* atStatus and atTotal record the summary's status and total at the call.  *)
MessageUpdate(s, d, resp) ==
    [Name |-> s.Name, Alias |-> s.Alias,
     ResourceCount |-> resp.ResourceCount,
     Error |-> "",
     DiagnosticCount |-> CountBySeverity(d),
     atStatus |-> s.Status, atTotal |-> s.TotalResourcesFetched]

(* Lines 410-417: the FetchUpdate of a failed receive *)
ErrorUpdate(s, d, err) ==
    [Name |-> s.Name, Alias |-> s.Alias,
     ResourceCount |-> 0,
     Error |-> err,
     DiagnosticCount |-> Len(d),
     atStatus |-> s.Status, atTotal |-> s.TotalResourcesFetched]

(* if callback != nil { callback(update) }, lines 373 and 409 *)
Callback(p, update) ==
    IF hasCallback THEN [updates EXCEPT ![p] = Append(@, update)] ELSE updates

(* Lines 368-428, one iteration of the receive loop: a message, the end of  *)
(* the stream (io.EOF) or a transport error.                                *)
Recv(p) ==
    /\ ~crashed
    /\ wpc[p] = "recv"
    /\ \E err \in {"nil", "EOF", "error", "canceled"} :
         /\ err = "nil" => Len(stream[p]) < MaxMsgs
         /\ events' = Log(p, "Recv", err)
         /\ IF err = "nil"
            THEN \E resp \in pool :
                   /\ updates' = Callback(p, MessageUpdate(summary[p], fdiags[p], resp))
                   /\ stream' = [stream EXCEPT ![p] = Append(@, resp)]
                   /\ summary' = [summary EXCEPT ![p] = ApplyMessage(@, resp)]
                   /\ fdiags' = [fdiags EXCEPT ![p] = @ \o MessageDiags(resp)]
                   /\ UNCHANGED << wpc, wdiags, plugin, closeCount >>
            ELSE IF err = "EOF"
            THEN /\ ExecuteReturn(p, summary[p], wdiags[p], fdiags[p])
                 /\ UNCHANGED << stream, fdiags, updates >>
            ELSE /\ updates' = Callback(p, ErrorUpdate(summary[p], fdiags[p], err))
                 /\ ExecuteReturn(p, [summary[p] EXCEPT !.Status = RecvErrorStatus(err)],
                                  wdiags[p], fdiags[p] \o RecvErrorDiag(err))
                 /\ UNCHANGED << stream, fdiags >>
    /\ UNCHANGED << saved, sends >>
    /\ UNCHANGED << confVars, pool, dsnURI, cfgDSN, normVars, hasCallback, providersInfo, hasDeadline, wg, fetchSummaries, crashed >>
    /\ UNCHANGED fetchVars

(* Line 239 with = for d.Add: the save error replaces the diagnostics *)
AfterSaveReplaces(d, err) ==
    IF err # "nil" THEN FromError("INTERNAL", err) ELSE d

(* Lines 238-240: the diagnostics after sta.SaveFetchSummary returned err *)
AfterSave(d, err) ==
    IF err # "nil" THEN d \o FromError("INTERNAL", err) ELSE d

(* Lines 232-240: after the runner returned.  With a deadline on the context *)
(* nothing is persisted.  Otherwise createFetchSummary reads the summary,   *)
(* which panics on a nil summary (ps.Diagnostics() on a nil pointer), and   *)
(* sta.SaveFetchSummary is called; its error is added to the diagnostics.   *)
AfterRun(p) ==
    /\ ~crashed
    /\ wpc[p] = "afterRun"
    /\ IF hasDeadline
       THEN /\ wpc' = [wpc EXCEPT ![p] = "send"]
            /\ UNCHANGED << saved, wdiags, crashed >>
       ELSE IF summary[p] = Nil
       THEN /\ crashed' = TRUE
            /\ wpc' = [wpc EXCEPT ![p] = "panicked"]
            /\ UNCHANGED << saved, wdiags >>
       ELSE \E err \in {"nil", "error"} :
              /\ saved' = [saved EXCEPT
                             ![p] = Append(@, [record |-> createFetchSummary(summary[p]),
                                               err |-> err])]
              /\ wdiags' = [wdiags EXCEPT ![p] = AfterSave(@, err)]
              /\ wpc' = [wpc EXCEPT ![p] = "send"]
              /\ UNCHANGED crashed
    /\ UNCHANGED << plugin, closeCount, summary, fdiags, stream, events, sends, updates >>
    /\ UNCHANGED << confVars, pool, dsnURI, cfgDSN, normVars, hasCallback, providersInfo, hasDeadline, wg, fetchSummaries >>
    /\ UNCHANGED fetchVars

(* Lines 234/241 and the deferred wg.Done of line 230: the send blocks      *)
(* while the channel's buffer is full.                                      *)
Send(p) ==
    /\ ~crashed
    /\ wpc[p] = "send"
    /\ Len(fetchSummaries) < ChanCap
    /\ fetchSummaries' = Append(fetchSummaries,
                                [prov |-> p, summary |-> summary[p], diags |-> wdiags[p]])
    /\ sends' = [sends EXCEPT ![p] = @ + 1]
    /\ wg' = wg - 1
    /\ wpc' = [wpc EXCEPT ![p] = "done"]
    /\ UNCHANGED << plugin, closeCount, summary, wdiags, fdiags, stream, events, saved, updates >>
    /\ UNCHANGED << confVars, pool, dsnURI, cfgDSN, normVars, hasCallback, providersInfo, hasDeadline, crashed >>
    /\ UNCHANGED fetchVars

Next ==
    \/ FetchBegin
    \/ FetchSkip
    \/ FetchLaunch
    \/ FetchWait
    \/ FetchDrain
    \/ FetchReturn
    \/ \E p \in Providers : CreatePlugin(p)
    \/ \E p \in Providers : ConfigureProvider(p)
    \/ \E p \in Providers : GetProviderSchema(p)
    \/ \E p \in Providers : FetchResources(p)
    \/ \E p \in Providers : Recv(p)
    \/ \E p \in Providers : AfterRun(p)
    \/ \E p \in Providers : Send(p)

Spec == Init /\ [][Next]_vars

(* One Fetch call over one provider with resources, the other providers     *)
(* configured with none, with and without a progress callback.              *)
InitStream ==
    /\ providersInfo \in [Providers -> ProviderInfos]
    /\ \A p \in Providers : (Len(providersInfo[p].Resources) # 0) <=> (p = 1)
    /\ hasDeadline \in BOOLEAN
    /\ hasCallback \in BOOLEAN
    /\ fetchPc = "begin"
    /\ loopIdx = 1
    /\ wg = 0
    /\ fetchSummaries = <<>>
    /\ diags = <<>>
    /\ response = <<>>
    /\ totalFetched = 0
    /\ returned = "none"
    /\ retDiags = <<>>
    /\ crashed = FALSE
    /\ wpc = [p \in Providers |-> "idle"]
    /\ plugin = [p \in Providers |-> "none"]
    /\ closeCount = [p \in Providers |-> 0]
    /\ summary = [p \in Providers |-> Nil]
    /\ wdiags = [p \in Providers |-> <<>>]
    /\ fdiags = [p \in Providers |-> <<>>]
    /\ stream = [p \in Providers |-> <<>>]
    /\ events = [p \in Providers |-> <<>>]
    /\ saved = [p \in Providers |-> <<>>]
    /\ sends = [p \in Providers |-> 0]
    /\ updates = [p \in Providers |-> <<>>]
    /\ nAll = <<>>
    /\ nRequested = <<>>
    /\ nSkip = <<>>
    /\ nPc = "off"
    /\ nOut = Nil
    /\ nAgain = Nil
    /\ pool = Messages \cup MoreMessages
    /\ dsnURI = ""
    /\ cfgDSN = [p \in Providers |-> "none"]
    /\ cProviders = <<>>
    /\ cPc = "off"
    /\ cDiags = <<>>

SpecStream == InitStream /\ [][Next]_vars

----------------------------------------------------------------------------
(* Calls of doNormalizeResources on their own: one call on a catalog, a     *)
(* requested list and a skip list, and a second call on the first call's    *)
(* output with an empty skip list.                                          *)

MaxRequested == 2

Orderings(S) ==
    {f \in [1..Cardinality(S) -> S] : \A i, j \in 1..Cardinality(S) : f[i] = f[j] => i = j}

(* The catalogs: every subset of three names in every iteration order, a    *)
(* catalog of names that share a prefix without the dot, and catalogs that  *)
(* hold the empty name and the name "*" (map keys are arbitrary strings).   *)
Catalogs ==
    UNION {Orderings(S) :
             S \in SUBSET { << "a" >>, << "b", ".", "a" >>, << "b", ".", "b" >> }}
    \cup { << << "b", "b" >>, << "b", ".", "a" >>, << "b", "a", ".", "a" >> >>,
           << <<>>, << "a" >> >>,
           << << "a" >>, << "*" >> >> }

(* The entries a configured list may hold *)
Entries ==
    { << "*" >>, <<>>, << "a" >>, << "b", ".", "a" >>, << "b", ".", "*" >>,
      << "c" >>, << "b", "*" >>, << ".", "*" >>, << "b", ".", "*", "a" >>,
      << "*", ".", "*" >> }

RequestedLists == UNION {[1..n -> Entries] : n \in 0..MaxRequested}

SkipLists ==
    { <<>>,
      << << "a" >> >>,
      << << "b", ".", "a" >> >>,
      << << "b", ".", "*" >> >>,
      << << "c" >> >>,
      << << "*" >> >>,
      << << "a" >>, << "*" >> >>,
      << <<>> >>,
      << << "a" >>, << "a" >> >> }

InitNorm ==
    /\ nAll \in Catalogs
    /\ nRequested \in RequestedLists
    /\ nSkip \in SkipLists
    /\ nPc = "input"
    /\ nOut = Nil
    /\ nAgain = Nil
    /\ pool = Messages
    /\ dsnURI = ""
    /\ cfgDSN = [p \in Providers |-> "none"]
    /\ cProviders = <<>>
    /\ cPc = "off"
    /\ cDiags = <<>>
    /\ providersInfo = [p \in Providers |->
                          [Name |-> << "a" >>, Alias |-> <<>>,
                           Resources |-> <<>>, SkipResources |-> <<>>]]
    /\ hasDeadline = FALSE
    /\ hasCallback = FALSE
    /\ fetchPc = "off"
    /\ loopIdx = 1
    /\ wg = 0
    /\ fetchSummaries = <<>>
    /\ diags = <<>>
    /\ response = <<>>
    /\ totalFetched = 0
    /\ returned = "none"
    /\ retDiags = <<>>
    /\ crashed = FALSE
    /\ wpc = [p \in Providers |-> "idle"]
    /\ plugin = [p \in Providers |-> "none"]
    /\ closeCount = [p \in Providers |-> 0]
    /\ summary = [p \in Providers |-> Nil]
    /\ wdiags = [p \in Providers |-> <<>>]
    /\ fdiags = [p \in Providers |-> <<>>]
    /\ stream = [p \in Providers |-> <<>>]
    /\ events = [p \in Providers |-> <<>>]
    /\ saved = [p \in Providers |-> <<>>]
    /\ sends = [p \in Providers |-> 0]
    /\ updates = [p \in Providers |-> <<>>]

(* doNormalizeResources(resources, skip, all), lines 446-450 *)
Normalize ==
    /\ nPc = "input"
    /\ nOut' = doNormalizeResources(nRequested, nSkip, nAll)
    /\ nPc' = "normalized"
    /\ UNCHANGED << nAll, nRequested, nSkip, nAgain >>
    /\ UNCHANGED << confVars, pool, dsnURI, cfgDSN, providersInfo, hasDeadline, hasCallback,
                    wg, fetchSummaries, crashed >>
    /\ UNCHANGED << fetchVars, workerVars >>

(* A second call on the list the first call returned without error *)
Renormalize ==
    /\ nPc = "normalized"
    /\ ~HasDiags(nOut.diags)
    /\ nAgain' = doNormalizeResources(nOut.res, <<>>, nAll)
    /\ nPc' = "renormalized"
    /\ UNCHANGED << nAll, nRequested, nSkip, nOut >>
    /\ UNCHANGED << confVars, pool, dsnURI, cfgDSN, providersInfo, hasDeadline, hasCallback,
                    wg, fetchSummaries, crashed >>
    /\ UNCHANGED << fetchVars, workerVars >>

NextNorm ==
    \/ Normalize
    \/ Renormalize

SpecNorm == InitNorm /\ [][NextNorm]_vars

----------------------------------------------------------------------------
(* The configuration layer: ProcessConfig (config_parser.go, lines 50-60)   *)
(* validates the provider blocks and then normalizes them.                  *)

MaxBlocks == 2

(* The names and aliases a provider block may carry (block labels and       *)
(* attribute values are arbitrary strings).                                 *)
BlockNames == { << "a" >>, << "b" >>, << "a", "(", "b", ")" >> }

BlockAliases == { <<>>, << "a" >>, << "b" >>, << "c" >>, << "b", ")", "(", "c" >> }

ProviderBlocks == [Name : BlockNames, Alias : BlockAliases]

(* The test of lines 233 and 240 left out: no block is taken for a duplicate *)
AlreadyExistsNever(key, existing) == FALSE

(* existingProviders[key], lines 232-233 and 239-240 *)
AlreadyExists(key, existing) == key \in existing

(* validateProvidersBlock, lines 225-248: the loop from block i on, with    *)
(* the keys recorded so far.                                                *)
RECURSIVE validateLoop(_, _, _)
validateLoop(providers, i, existingProviders) ==
    IF i > Len(providers) THEN <<>>
    ELSE LET provider == providers[i]
         IN  IF provider.Alias # <<>>
             THEN IF AlreadyExists(provider.Alias, existingProviders)
                  THEN << Diag("ERROR", "USER", "Duplicate Alias") >>
                       \o validateLoop(providers, i + 1, existingProviders)
                  ELSE validateLoop(providers, i + 1,
                                    existingProviders \cup {provider.Alias})
             ELSE IF AlreadyExists(provider.Name, existingProviders)
                  THEN << Diag("ERROR", "USER", "Provider Alias Required") >>
                       \o validateLoop(providers, i + 1, existingProviders)
                  ELSE validateLoop(providers, i + 1,
                                    existingProviders \cup {provider.Name})

validateProvidersBlock(providers) == validateLoop(providers, 1, {})

(* normalize, lines 265-270: the alias defaults to the provider's name *)
normalize(providers) ==
    [i \in 1..Len(providers) |->
        IF providers[i].Alias = <<>>
        THEN [providers[i] EXCEPT !.Alias = providers[i].Name]
        ELSE providers[i]]

InitConf ==
    /\ cProviders \in UNION {[1..n -> ProviderBlocks] : n \in 0..MaxBlocks}
    /\ cPc = "loaded"
    /\ cDiags = <<>>
    /\ nAll = <<>>
    /\ nRequested = <<>>
    /\ nSkip = <<>>
    /\ nPc = "off"
    /\ nOut = Nil
    /\ nAgain = Nil
    /\ pool = Messages
    /\ dsnURI = ""
    /\ cfgDSN = [p \in Providers |-> "none"]
    /\ providersInfo = [p \in Providers |->
                          [Name |-> << "a" >>, Alias |-> <<>>,
                           Resources |-> <<>>, SkipResources |-> <<>>]]
    /\ hasDeadline = FALSE
    /\ hasCallback = FALSE
    /\ fetchPc = "off"
    /\ loopIdx = 1
    /\ wg = 0
    /\ fetchSummaries = <<>>
    /\ diags = <<>>
    /\ response = <<>>
    /\ totalFetched = 0
    /\ returned = "none"
    /\ retDiags = <<>>
    /\ crashed = FALSE
    /\ wpc = [p \in Providers |-> "idle"]
    /\ plugin = [p \in Providers |-> "none"]
    /\ closeCount = [p \in Providers |-> 0]
    /\ summary = [p \in Providers |-> Nil]
    /\ wdiags = [p \in Providers |-> <<>>]
    /\ fdiags = [p \in Providers |-> <<>>]
    /\ stream = [p \in Providers |-> <<>>]
    /\ events = [p \in Providers |-> <<>>]
    /\ saved = [p \in Providers |-> <<>>]
    /\ sends = [p \in Providers |-> 0]
    /\ updates = [p \in Providers |-> <<>>]

(* validate, line 53 (the part of validateProvidersBlock) *)
Validate ==
    /\ cPc = "loaded"
    /\ cDiags' = validateProvidersBlock(cProviders)
    /\ cPc' = "validated"
    /\ UNCHANGED << cProviders, normVars, pool, dsnURI, cfgDSN, providersInfo,
                    hasDeadline, hasCallback, wg, fetchSummaries, crashed >>
    /\ UNCHANGED << fetchVars, workerVars >>

(* Lines 54-58: normalize runs when validation reported no error *)
NormalizeConfig ==
    /\ cPc = "validated"
    /\ ~HasErrors(cDiags)
    /\ cProviders' = normalize(cProviders)
    /\ cPc' = "normalized"
    /\ UNCHANGED << cDiags, normVars, pool, dsnURI, cfgDSN, providersInfo,
                    hasDeadline, hasCallback, wg, fetchSummaries, crashed >>
    /\ UNCHANGED << fetchVars, workerVars >>

NextConf ==
    \/ Validate
    \/ NormalizeConfig

SpecConf == InitConf /\ [][NextConf]_vars

----------------------------------------------------------------------------
(* Vocabulary of the properties *)

(* A provider with at least one configured resource *)
Attempted(p) == Len(providersInfo[p].Resources) # 0

Started(p) == wpc[p] # "idle"

(* The runner of p has returned to its goroutine *)
RunnerReturned(p) == wpc[p] \in {"afterRun", "send", "done", "panicked"}

Issued(p, call) == \E i \in 1..Len(events[p]) : events[p][i][1] = call

Observed(p, call, outcome) ==
    \E i \in 1..Len(events[p]) : events[p][i] = << call, outcome >>

LastEvent(p) == events[p][Len(events[p])]

(* The plugin of p was created *)
Created(p) == Observed(p, "CreatePlugin", "nil")

(* The call that ended p's runner failed or was canceled *)
Failing(p) ==
    /\ RunnerReturned(p)
    /\ \/ LastEvent(p)[2] \in {"error", "canceled", "diagnostics"}
       \/ summary[p] = Nil
       \/ summary[p].Status # FetchFinished

(* Fetch has ended: it returned, or it died of a panic *)
FetchEnded == fetchPc \in {"done", "panicked"} \/ crashed

RECURSIVE SumCounts(_)
SumCounts(msgs) ==
    IF msgs = <<>> THEN 0 ELSE Head(msgs).ResourceCount + SumCounts(Tail(msgs))

RECURSIVE SumResponse(_, _)
SumResponse(resp, keys) ==
    IF keys = {} THEN 0
    ELSE LET k == CHOOSE x \in keys : TRUE
         IN  resp[k].summary.TotalResourcesFetched + SumResponse(resp, keys \ {k})

(* The display keys of the attempted providers are pairwise distinct *)
DistinctKeys ==
    \A p, q \in Providers :
        (p # q /\ Attempted(p) /\ Attempted(q))
            => String(providersInfo[p]) # String(providersInfo[q])

----------------------------------------------------------------------------
(* C1: isolation.  When a provider fails or is canceled at any stage,       *)
(* Fetch is not aborted (it still goes on to return a response), and every  *)
(* other provider whose runner returned holds the count of its own stream   *)
(* and, after an undisturbed stream, the status Finished.                   *)
(* Stated as the claim states it; the code violates it.                     *)
C1_Isolation ==
    \A p \in Providers :
        Failing(p) =>
            /\ ~crashed
            /\ fetchPc # "panicked"
            /\ \A q \in Providers \ {p} :
                   (RunnerReturned(q) /\ summary[q] # Nil) =>
                       /\ summary[q].TotalResourcesFetched = SumCounts(stream[q])
                       /\ LastEvent(q) = << "Recv", "EOF" >>
                              => summary[q].Status = FetchFinished

(* C2: every attempted provider's slot holds a non-nil summary with one of  *)
(* the five terminal statuses, at whatever stage its runner ended, and the  *)
(* returned response has an entry for each attempted provider.              *)
(* Stated as the claim states it; the code violates it.                     *)
C2_EverySlotFilled ==
    /\ \A p \in Providers :
           (Attempted(p) /\ RunnerReturned(p)) =>
               /\ summary[p] # Nil
               /\ summary[p].Status \in TerminalStatuses
    /\ returned = "response" =>
           \A p \in Providers :
               Attempted(p) =>
                   Cardinality({k \in DOMAIN response : response[k].prov = p}) = 1

(* C3 as stated: in every returned response TotalFetched is the sum of the  *)
(* TotalResourcesFetched of the map's entries, for every provider list,     *)
(* coinciding display keys included.                                        *)
C3_TotalIsSum ==
    returned = "response" => totalFetched = SumResponse(response, DOMAIN response)

(* C3 amended: in every returned response TotalFetched is the sum of the    *)
(* TotalResourcesFetched of the map's entries, provided the display keys of *)
(* the attempted providers are pairwise distinct.                           *)
C3_TotalIsSumDistinctKeys ==
    (returned = "response" /\ DistinctKeys)
        => totalFetched = SumResponse(response, DOMAIN response)

(* C3 witness: a response over two providers with distinct keys, both of    *)
(* which fetched something.                                                 *)
C3_Witness ==
    /\ returned = "response"
    /\ DistinctKeys
    /\ Cardinality(DOMAIN response) = 2
    /\ \A k \in DOMAIN response : response[k].summary.TotalResourcesFetched > 0

(* C4: barrier join.  Fetch has not ended (returned, or died) before every  *)
(* started worker ran to its end and delivered its result, and it builds    *)
(* its response only then.                                                  *)
(* Stated as the claim states it; the code violates it.                     *)
C4_BarrierJoin ==
    /\ (FetchEnded \/ fetchPc = "drain") =>
           \A p \in Providers : Started(p) => (wpc[p] = "done" /\ sends[p] = 1)
    /\ \A p \in Providers : wpc[p] # "panicked"

C6_PluginClosedOnce ==
    \A p \in Providers :
        /\ closeCount[p] <= 1
        /\ (Created(p) /\ RunnerReturned(p)) => (closeCount[p] = 1 /\ plugin[p] = "closed")
        /\ (Created(p) /\ ~RunnerReturned(p)) => (closeCount[p] = 0 /\ plugin[p] = "open")
        /\ ~Created(p) => (closeCount[p] = 0 /\ plugin[p] = "none")
        /\ (sends[p] > 0 /\ Created(p)) => closeCount[p] = 1

(* The call and outcome that ended the runner of p *)
ExitPath(p) == LastEvent(p)

(* C6 witness: two workers about to send, whose runners left by different   *)
(* exits (a canceled receive and a failed configure), each plugin closed.   *)
C6_Witness ==
    \E p, q \in Providers :
        /\ wpc[p] = "send" /\ Created(p) /\ ExitPath(p) = << "Recv", "canceled" >>
        /\ wpc[q] = "send" /\ Created(q) /\ ExitPath(q) = << "ConfigureProvider", "error" >>
        /\ closeCount[p] = 1 /\ closeCount[q] = 1

(* The warnings of the given classification that d holds about skipped      *)
(* providers                                                                *)
SkipWarnings(d, typ) ==
    Cardinality({i \in 1..Len(d) :
                    /\ d[i].severity = "WARNING"
                    /\ d[i].type = typ
                    /\ d[i].summary = SkipDiag[1].summary})

(* The providers with zero resources that the launch loop has passed *)
SkippedSoFar ==
    {p \in Providers : ~Attempted(p) /\ (fetchPc # "begin") /\ p < loopIdx}

(* For a provider with zero resources no runner is started, no plugin is    *)
(* created, no call is issued, and the response has no entry for it.        *)
NoRunnerForSkipped ==
    \A p \in Providers :
        ~Attempted(p) =>
            /\ wpc[p] = "idle"
            /\ plugin[p] = "none"
            /\ events[p] = <<>>
            /\ sends[p] = 0
            /\ \A k \in DOMAIN response : response[k].prov # p

C8_ConfigurePhase ==
    \A p \in Providers :
        \A o \in {"canceled", "error", "diagnostics"} :
            Observed(p, "ConfigureProvider", o) =>
                /\ RunnerReturned(p)
                /\ summary[p] # Nil
                /\ summary[p].Status =
                       (IF o = "canceled" THEN FetchCanceled ELSE FetchConfigureFailed)
                /\ o = "error" =>
                       (wdiags[p][1].type = "INTERNAL" /\ wdiags[p][1].severity = "ERROR")
                /\ o = "canceled" => wdiags[p][1].type = "CANCELED"
                /\ HasErrors(wdiags[p])
                /\ ~Issued(p, "GetProviderSchema")
                /\ ~Issued(p, "FetchResources")
                /\ ~Issued(p, "Recv")
                /\ DOMAIN summary[p].FetchedResources = {}
                /\ summary[p].TotalResourcesFetched = 0

(* C8 witness: two finished workers, one canceled in configure, the other   *)
(* stopped by error diagnostics of configure.                               *)
C8_Witness ==
    \E p, q \in Providers :
        /\ wpc[p] = "done" /\ Observed(p, "ConfigureProvider", "canceled")
        /\ wpc[q] = "done" /\ Observed(q, "ConfigureProvider", "diagnostics")

(* C9: a worker that observed a cancellation at the configure call, the     *)
(* schema fetch, the opening of the stream or a receive ends Canceled and   *)
(* issues no further call.                                                  *)
(* Stated as the claim states it; the code violates it.                     *)
C9_CancelMeansCanceled ==
    \A p \in Providers :
        (\E i \in 1..Len(events[p]) : events[p][i][2] = "canceled") =>
            /\ LastEvent(p)[2] = "canceled"
            /\ RunnerReturned(p)
            /\ summary[p] # Nil
            /\ summary[p].Status = FetchCanceled

(* C10: when the schema is fetched and the normalisation of the requested   *)
(* and skip lists yields an error diagnostic, the runner returns Failed     *)
(* with the normalisation diagnostics and no FetchResources call is issued. *)
C10_NormalizationError ==
    \A p \in Providers :
        LET n == doNormalizeResources(providersInfo[p].Resources,
                                      providersInfo[p].SkipResources, Catalog)
        IN  (Observed(p, "GetProviderSchema", "nil") /\ HasErrors(n.diags)) =>
                /\ RunnerReturned(p)
                /\ summary[p] # Nil
                /\ summary[p].Status = FetchFailed
                /\ \E i \in 1..Len(wdiags[p]) :
                       /\ wdiags[p][i].type = "USER"
                       /\ wdiags[p][i].severity = "ERROR"
                       /\ wdiags[p][i].summary = << "fetch", n.diags[1].summary >>
                /\ ~Issued(p, "FetchResources")
                /\ ~Issued(p, "Recv")
                /\ stream[p] = <<>>

(* C10 witness: a finished worker that requested a name the catalog lacks   *)
(* and got the schema.                                                      *)
C10_Witness ==
    \E p \in Providers :
        /\ wpc[p] = "done"
        /\ providersInfo[p].Resources = << << "c" >> >>
        /\ Observed(p, "GetProviderSchema", "nil")
        /\ summary[p].Status = FetchFailed

----------------------------------------------------------------------------
(* The receive loop *)

(* The positions of p's log at which a receive failed with a transport error *)
RecvErrorAt(p) ==
    {i \in 1..Len(events[p]) :
        events[p][i][1] = "Recv" /\ events[p][i][2] \in {"error", "canceled"}}

(* The resource entries and the total that the messages msgs leave behind *)
LastMessageOf(msgs, name) ==
    msgs[CHOOSE i \in 1..Len(msgs) :
            /\ msgs[i].ResourceName = name
            /\ \A j \in (i + 1)..Len(msgs) : msgs[j].ResourceName # name]

KeepsMessages(s, msgs) ==
    /\ s.TotalResourcesFetched = SumCounts(msgs)
    /\ DOMAIN s.FetchedResources = {msgs[i].ResourceName : i \in 1..Len(msgs)}
    /\ \A name \in DOMAIN s.FetchedResources :
          /\ s.FetchedResources[name].Status = LastMessageOf(msgs, name).Summary.Status
          /\ s.FetchedResources[name].ResourceCount
                = LastMessageOf(msgs, name).Summary.ResourceCount

(* The diagnostics of d that executeFetch produced *)
FetchDiagsOf(d) ==
    SelectSeq(d, LAMBDA x : Len(x.summary) = 2 /\ x.summary[1] = "fetch")

(* C11: a transport error from a receive is reported to the callback (when  *)
(* one is supplied) with the error text while the status is still the one   *)
(* the summary started with; the status becomes Canceled with a             *)
(* cancellation diagnostic when the error is a cancellation and Failed with *)
(* an INTERNAL diagnostic otherwise; nothing is received or called after    *)
(* it, and the summary keeps the entries and the total of the messages      *)
(* received before it.                                                      *)
C11_StreamError ==
    \A p \in Providers : \A i \in RecvErrorAt(p) :
        LET err == events[p][i][2]
            fd == FetchDiagsOf(wdiags[p])
        IN  /\ i = Len(events[p])
            /\ wpc[p] \in {"afterRun", "send", "done"}
            /\ summary[p] # Nil
            /\ summary[p].Status = IF err = "canceled" THEN FetchCanceled ELSE FetchFailed
            /\ Len(fd) = Len(fdiags[p]) + 1
            /\ fd[Len(fd)].severity = "ERROR"
            /\ fd[Len(fd)].type = IF err = "canceled" THEN "CANCELED" ELSE "INTERNAL"
            /\ fd[Len(fd)].summary = << "fetch", err >>
            /\ KeepsMessages(summary[p], stream[p])
            /\ Len(SelectSeq(events[p], LAMBDA e : e[1] = "Recv")) = Len(stream[p]) + 1
            /\ IF hasCallback
               THEN /\ Len(updates[p]) = Len(stream[p]) + 1
                    /\ updates[p][Len(updates[p])].Error = err
                    /\ updates[p][Len(updates[p])].atStatus = FetchFinished
                    /\ updates[p][Len(updates[p])].atTotal = SumCounts(stream[p])
               ELSE updates[p] = <<>>

(* A cancelled receive after two messages, with a callback, delivered *)
C11_Witness ==
    \E p \in Providers :
        /\ hasCallback
        /\ wpc[p] = "done"
        /\ Len(stream[p]) = 2
        /\ RecvErrorAt(p) # {}
        /\ events[p][Len(events[p])] = << "Recv", "canceled" >>
        /\ returned = "response"

(* The diagnostics that the first n messages of msgs added, lines 395-403 *)
RECURSIVE DiagsOfMessages(_, _)
DiagsOfMessages(msgs, n) ==
    IF n = 0 THEN <<>>
    ELSE DiagsOfMessages(msgs, n - 1) \o MessageDiags(msgs[n])

(* C12: the FetchUpdate of every normal message carries the provider's      *)
(* cumulative total, this message's row count included, and the count of    *)
(* the diagnostics accumulated when the callback is called.                 *)
C12_UpdateIsCumulative ==
    \A p \in Providers : \A i \in 1..Len(updates[p]) :
        updates[p][i].Error = "" =>
            /\ i <= Len(stream[p])
            /\ updates[p][i].ResourceCount = SumCounts(SubSeq(stream[p], 1, i))
            /\ updates[p][i].DiagnosticCount
                  = CountBySeverity(DiagsOfMessages(stream[p], i - 1))

----------------------------------------------------------------------------
(* Persistence *)

(* The worker of p has not yet come to its persistence step *)
BeforeSave(p) ==
    wpc[p] \in {"idle", "create", "configure", "schema", "open", "recv", "afterRun"}

(* C13: with a deadline on the context SaveFetchSummary is never called;    *)
(* without one it is called exactly once for each started provider, after   *)
(* the provider's runner returned and before its result is sent.            *)
C13_SaveOncePerProvider ==
    \A p \in Providers :
        /\ hasDeadline => saved[p] = <<>>
        /\ ~hasDeadline =>
              /\ BeforeSave(p) => saved[p] = <<>> /\ sends[p] = 0
              /\ wpc[p] \in {"send", "done"} => Len(saved[p]) = 1
              /\ sends[p] > 0 => Len(saved[p]) = 1
              /\ (FetchEnded /\ Started(p)) => Len(saved[p]) = 1

(* p's worker takes the step in which SaveFetchSummary fails *)
SaveFails(p) ==
    /\ wpc[p] = "afterRun"
    /\ Len(saved'[p]) = Len(saved[p]) + 1
    /\ saved'[p][Len(saved'[p])].err # "nil"

(* C14: a failed SaveFetchSummary adds one INTERNAL diagnostic to that      *)
(* provider's diagnostics and changes nothing else: the summary stays the   *)
(* one the runner returned, the worker goes on to its send, Fetch is not    *)
(* disturbed and neither is any other provider.                             *)
C14_SaveFailure ==
    [][\A p \in Providers :
         SaveFails(p) =>
            /\ wdiags'[p] = wdiags[p]
                    \o << Diag("ERROR", "INTERNAL", saved'[p][Len(saved'[p])].err) >>
            /\ summary' = summary
            /\ summary[p] # Nil
            /\ saved'[p][Len(saved'[p])].record.TotalResourceCount
                  = summary[p].TotalResourcesFetched
            /\ wpc'[p] = "send"
            /\ crashed' = crashed
            /\ UNCHANGED << fetchVars, wg, fetchSummaries >>
            /\ \A q \in Providers \ {p} :
                  /\ wpc'[q] = wpc[q]
                  /\ wdiags'[q] = wdiags[q]
                  /\ saved'[q] = saved[q]
                  /\ sends'[q] = sends[q]]_vars

(* Fetch returned a response holding the summary of a provider whose save   *)
(* failed after its runner had collected diagnostics, next to a provider    *)
(* whose save succeeded.                                                    *)
C14_Witness ==
    /\ returned = "response"
    /\ \E p, q \in Providers :
          /\ p # q
          /\ Len(saved[p]) = 1 /\ saved[p][1].err = "error"
          /\ Len(wdiags[p]) > 1
          /\ Len(saved[q]) = 1 /\ saved[q][1].err = "nil"
          /\ \E k \in DOMAIN response :
                response[k].prov = p /\ response[k].summary = summary[p]

----------------------------------------------------------------------------
(* Resource name normalisation *)

(* The first call has returned *)
Normalized == nPc \in {"normalized", "renormalized"}

CatalogSet == SeqToSet(nAll)

(* The list is ascending in byte order, each name once *)
IsSortedStrict(l) == \A i, j \in 1..Len(l) : i < j => StrLess(l[i], l[j])

(* The call failed with USER errors and returned no name *)
FailsWithUserError(out) ==
    /\ out.res = <<>>
    /\ HasDiags(out.diags)
    /\ \A i \in 1..Len(out.diags) :
          out.diags[i].severity = "ERROR" /\ out.diags[i].type = "USER"

(* C15, as stated: for every catalog, the requested list ["*"] with an      *)
(* empty skip list yields all the names of the catalog, sorted, each once,  *)
(* and no error.                                                            *)
C15_WildcardAll ==
    (Normalized /\ nRequested = << << "*" >> >> /\ nSkip = <<>>) =>
        /\ nOut.diags = <<>>
        /\ SeqToSet(nOut.res) = CatalogSet
        /\ IsSortedStrict(nOut.res)

(* C15, amended: the same for every catalog that holds no empty name; on a  *)
(* catalog with an empty name the expansion is rejected as an invalid       *)
(* resource.                                                                *)
C15_WildcardAllNonEmptyNames ==
    (Normalized /\ nRequested = << << "*" >> >> /\ nSkip = <<>>) =>
        IF <<>> \notin CatalogSet
        THEN /\ nOut.diags = <<>>
             /\ SeqToSet(nOut.res) = CatalogSet
             /\ IsSortedStrict(nOut.res)
        ELSE /\ FailsWithUserError(nOut)
             /\ nOut.diags[1].summary = "invalid resource"

(* The wildcard over a catalog of three names iterated out of order *)
C15_Witness ==
    /\ Normalized
    /\ nRequested = << << "*" >> >>
    /\ nSkip = <<>>
    /\ nAll = << << "b", ".", "b" >>, << "a" >>, << "b", ".", "a" >> >>
    /\ nOut.res = << << "a" >>, << "b", ".", "a" >>, << "b", ".", "b" >> >>

(* Some entry of the list occurs twice *)
HasRepeat(R) == \E i, j \in 1..Len(R) : i < j /\ R[i] = R[j]

(* The position of the first entry that repeats an earlier one *)
FirstRepeat(R) ==
    CHOOSE j \in 1..Len(R) :
        /\ \E i \in 1..(j - 1) : R[i] = R[j]
        /\ \A k \in 1..(j - 1) : \A i \in 1..(k - 1) : R[i] # R[k]

(* prefix.* with a non-empty prefix and no ".*" before the final one *)
IsGlobForm(e) == Len(e) >= 3 /\ IndexDotStar(e) = Len(e) - 2

(* The names of C that start with the prefix of the glob e and its dot *)
GlobMatches(e, C) == {k \in C : HasPrefix(k, SubSeq(e, 1, Len(e) - 1))}

(* The entry is a name of C, or a glob with at least one match in C *)
Accepted(e, C) ==
    /\ e # <<>>
    /\ \/ e \in C
       \/ IsGlobForm(e) /\ GlobMatches(e, C) # {}

(* C16, as stated: a requested list that holds the same name twice fails    *)
(* with the USER-classified duplicate error and returns no name.            *)
C16_DuplicateError ==
    (Normalized /\ HasRepeat(nRequested)) =>
        /\ FailsWithUserError(nOut)
        /\ nOut.diags[1].summary = "resource is duplicate"

(* C16, amended: such a list fails with a USER-classified error and returns *)
(* no name; the error is the duplicate error when every entry before the    *)
(* second occurrence is accepted, and it is never the duplicate error when  *)
(* an earlier entry is rejected.                                            *)
C16_DuplicateErrorUnlessEarlier ==
    (Normalized /\ HasRepeat(nRequested)) =>
        /\ FailsWithUserError(nOut)
        /\ (nOut.diags[1].summary = "resource is duplicate")
             <=> (\A i \in 1..(FirstRepeat(nRequested) - 1) :
                     Accepted(nRequested[i], CatalogSet))

(* A name of the catalog requested twice *)
C16_Witness ==
    /\ Normalized
    /\ nRequested = << << "a" >>, << "a" >> >>
    /\ << "a" >> \in CatalogSet
    /\ nOut.res = <<>>
    /\ nOut.diags[1].summary = "resource is duplicate"

(* The position of the first entry that is rejected or repeats an earlier one *)
FirstRejected(R, C) ==
    CHOOSE j \in 1..Len(R) :
        /\ ~Accepted(R[j], C) \/ \E i \in 1..(j - 1) : R[i] = R[j]
        /\ \A k \in 1..(j - 1) :
              Accepted(R[k], C) /\ \A i \in 1..(k - 1) : R[i] # R[k]

(* C17, as stated: a requested list that holds a name absent from the       *)
(* catalog (a non-empty entry without '*') fails with the USER-classified   *)
(* 'does not exist' error.                                                  *)
C17_MissingName ==
    (Normalized /\ \E i \in 1..Len(nRequested) :
                     /\ nRequested[i] \notin CatalogSet
                     /\ nRequested[i] # <<>>
                     /\ ~ContainsStar(nRequested[i])) =>
        /\ FailsWithUserError(nOut)
        /\ nOut.diags[1].summary = "resource does not exist"

(* C17, amended: a requested list other than ["*"] that holds an entry      *)
(* which is neither a name of the catalog nor a glob with a match fails     *)
(* with a USER-classified error and returns no name; the error is 'does not *)
(* exist' exactly when the first rejected entry is a new, non-empty entry   *)
(* other than "*" that is free of '*' or a well-formed glob.                *)
C17_MissingNameFirstRejected ==
    (/\ Normalized
     /\ nRequested # << << "*" >> >>
     /\ \E i \in 1..Len(nRequested) : ~Accepted(nRequested[i], CatalogSet)) =>
        /\ FailsWithUserError(nOut)
        /\ LET j == FirstRejected(nRequested, CatalogSet)
               e == nRequested[j]
           IN  (nOut.diags[1].summary = "resource does not exist")
                 <=> /\ \A i \in 1..(j - 1) : nRequested[i] # e
                     /\ e # <<>>
                     /\ e # << "*" >>
                     /\ IsGlobForm(e) \/ ~ContainsStar(e)

(* A name of the catalog followed by a name the catalog lacks *)
C17_Witness ==
    /\ Normalized
    /\ nRequested = << << "a" >>, << "c" >> >>
    /\ << "a" >> \in CatalogSet
    /\ nOut.res = <<>>
    /\ nOut.diags[1].summary = "resource does not exist"

(* The entry ends with ".*" after a non-empty prefix *)
EndsWithDotStar(e) ==
    Len(e) >= 3 /\ e[Len(e) - 1] = "." /\ e[Len(e)] = "*"

(* The call on the one-entry list << e >> is a glob resolution: e is not a  *)
(* name of the catalog, not empty and not the wildcard, the skip list empty *)
GlobCall(e) ==
    /\ Normalized
    /\ nRequested = << e >>
    /\ nSkip = <<>>
    /\ e \notin CatalogSet
    /\ e # <<>>
    /\ e # << "*" >>

NamesOf(L, C) ==
    UNION {IF L[i] \in C THEN {L[i]} ELSE GlobMatches(L[i], C) : i \in 1..Len(L)}

(* The names the requested list stands for; ["*"] stands for the catalog *)
RequestedNames(R, C) == IF R = << << "*" >> >> THEN C ELSE NamesOf(R, C)

(* C19: when the requested list and the skip list both resolve without     *)
(* error, the result is the requested names minus the skipped names,        *)
(* sorted, each once, in whatever order the catalog is iterated.            *)
C19_RequestedMinusSkip ==
    (Normalized /\ nOut.diags = <<>>) =>
        /\ SeqToSet(nOut.res)
              = RequestedNames(nRequested, CatalogSet) \ NamesOf(nSkip, CatalogSet)
        /\ IsSortedStrict(nOut.res)

(* The wildcard with a glob in the skip list over a catalog iterated out of *)
(* order; two names are skipped and one is left.                            *)
C19_Witness ==
    /\ Normalized
    /\ nAll = << << "b", ".", "b" >>, << "a" >>, << "b", ".", "a" >> >>
    /\ nRequested = << << "*" >> >>
    /\ nSkip = << << "b", ".", "*" >> >>
    /\ nOut = [res |-> << << "a" >> >>, diags |-> <<>>]

(* C20, as stated: when doNormalizeResources succeeds with the list L, a    *)
(* second call with L as the requested list and an empty skip list          *)
(* succeeds and returns L.                                                  *)
C20_Idempotent ==
    nPc = "renormalized" => nAgain = [res |-> nOut.res, diags |-> <<>>]

(* C20, amended: the same for every output other than the one-entry list    *)
(* ["*"], which the second call takes for the wildcard.                     *)
C20_IdempotentUnlessWildcardName ==
    nPc = "renormalized" =>
        IF nOut.res # << << "*" >> >>
        THEN nAgain = [res |-> nOut.res, diags |-> <<>>]
        ELSE /\ << "*" >> \in CatalogSet
             /\ SeqToSet(nAgain.res) = CatalogSet

(* A wildcard with a skipped name leaves two names, which the second call   *)
(* returns unchanged.                                                       *)
C20_Witness ==
    /\ nPc = "renormalized"
    /\ nRequested = << << "*" >> >>
    /\ nSkip = << << "b", ".", "a" >> >>
    /\ nOut.res = << << "a" >>, << "b", ".", "b" >> >>
    /\ nAgain = [res |-> nOut.res, diags |-> <<>>]

----------------------------------------------------------------------------
(* The end of the stream *)

(* p's runner returned at the end-of-stream marker *)
EndedAtEOF(p) == Observed(p, "Recv", "EOF")

(* Some received message carried an error string or an error diagnostic *)
SomeMessageFailed(msgs) ==
    \E i \in 1..Len(msgs) :
        msgs[i].Error # "" \/ HasErrors(msgs[i].Summary.Diagnostics)

(* C21: at the end-of-stream marker the runner returns the accumulated      *)
(* summary with status Finished when no received message carried an error   *)
(* string or an error diagnostic, and with another status when one did.     *)
C21_EndOfStreamStatus ==
    \A p \in Providers :
        EndedAtEOF(p) =>
            /\ KeepsMessages(summary[p], stream[p])
            /\ (summary[p].Status = FetchFinished) <=> ~SomeMessageFailed(stream[p])

(* The messages of msgs that carry an error string, in order *)
WithErrorString(msgs) == SelectSeq(msgs, LAMBDA m : m.Error # "")

(* The diagnostics of d that are tagged with a resource name *)
Tagged(d) == SelectSeq(d, LAMBDA x : x.resource # <<>>)

(* C22: after any sequence of normal messages the summary holds one entry   *)
(* per distinct resource name received, with the status and the count of    *)
(* the last message for that name; each message with an error string added  *)
(* one RESOLVING diagnostic tagged with its resource name, and the loop     *)
(* went on after it.                                                        *)
C22_LastMessageWins ==
    \A p \in Providers :
        (Observed(p, "FetchResources", "nil") /\ summary[p] # Nil) =>
            LET failed == WithErrorString(stream[p])
                tagged == Tagged(fdiags[p])
            IN  /\ KeepsMessages(summary[p], stream[p])
                /\ Len(tagged) = Len(failed)
                /\ \A i \in 1..Len(failed) :
                      tagged[i] = [severity |-> "ERROR", type |-> "RESOLVING",
                                   summary |-> failed[i].Error,
                                   resource |-> failed[i].ResourceName]
                /\ (LastEvent(p) = << "Recv", "nil" >>) => wpc[p] = "recv"

(* Two reports for the same resource, the second with another status, and   *)
(* the loop still receiving after a message with an error string.           *)
C22_Witness ==
    \E p \in Providers :
        /\ wpc[p] = "recv"
        /\ Len(stream[p]) = 2
        /\ stream[p][1].ResourceName = stream[p][2].ResourceName
        /\ stream[p][1].Summary.Status # stream[p][2].Summary.Status
        /\ stream[p][2].Error # ""
        /\ summary[p].FetchedResources[stream[p][2].ResourceName].Status
              = stream[p][2].Summary.Status

(* The list holds the entry e *)
Holds(L, e) == \E i \in 1..Len(L) : L[i] = e

(* All the diagnostics are USER errors, and there is one *)
UserErrors(d) ==
    /\ HasDiags(d)
    /\ \A i \in 1..Len(d) : d[i].severity = "ERROR" /\ d[i].type = "USER"

(* The skip list was rejected for its wildcard and nothing was skipped *)
SkipWildcardRejected ==
    /\ UserErrors(nOut.diags)
    /\ nOut.diags[Len(nOut.diags)].summary
          = "wildcard resource can only be in the requested resources list"
    /\ Len(nOut.diags) = 1 =>
          SeqToSet(nOut.res) = RequestedNames(nRequested, CatalogSet)

----------------------------------------------------------------------------
(* Duration *)

(* C24: every summary the runner returns has its Duration set, measured     *)
(* from the start of the configure step, whatever the terminal status.      *)
C24_DurationAlwaysSet ==
    \A p \in Providers :
        (RunnerReturned(p) /\ summary[p] # Nil) =>
            /\ summary[p].Duration # "zero"
            /\ summary[p].Duration = "sinceConfigureStart"

----------------------------------------------------------------------------
(* The storage connection string *)

(* Fetch returned at the failure of parseDSN *)
DSNFailed == returned = "nil" /\ retDiags = FromError("INTERNAL", "dsnError")

(* C25: when resolving the connection string fails, Fetch returns nil with  *)
(* an INTERNAL diagnostic and no worker is started, no plugin created and   *)
(* nothing persisted; the string is resolved once and every configure       *)
(* request carries that value.                                              *)
C25_ConnectionString ==
    /\ [](DSNFailed =>
            /\ fetchPc = "done"
            /\ response = <<>>
            /\ wg = 0
            /\ dsnURI = ""
            /\ \A p \in Providers :
                  /\ wpc[p] = "idle"
                  /\ plugin[p] = "none"
                  /\ events[p] = <<>>
                  /\ saved[p] = <<>>
                  /\ cfgDSN[p] = "none")
    /\ [](\A p \in Providers :
            IF Issued(p, "ConfigureProvider")
            THEN dsnURI # "" /\ cfgDSN[p] = dsnURI
            ELSE cfgDSN[p] = "none")
    /\ [][dsnURI # "" => dsnURI' = dsnURI]_vars

(* Fetch ended at the failure of parseDSN with providers configured *)
C25_Witness ==
    /\ DSNFailed
    /\ \E p \in Providers : Attempted(p)

----------------------------------------------------------------------------
(* Provider blocks *)

(* The blocks passed validation *)
ValidatedClean == cPc \in {"validated", "normalized"} /\ cDiags = <<>>

(* The display keys of the blocks are pairwise distinct *)
DisplayKeysDistinct(providers) ==
    \A i, j \in 1..Len(providers) :
        i # j => String(providers[i]) # String(providers[j])

HasParen(s) == \E i \in 1..Len(s) : s[i] \in {"(", ")"}

(* C26, as stated: blocks on which validateProvidersBlock reports no error  *)
(* have pairwise distinct display keys.                                     *)
C26_DistinctDisplayKeys ==
    ValidatedClean => DisplayKeysDistinct(cProviders)

(* C26, amended: the same for blocks whose names and aliases hold no        *)
(* parenthesis, before and after the aliases are defaulted.                 *)
C26_DistinctDisplayKeysNoParens ==
    (/\ ValidatedClean
     /\ \A i \in 1..Len(cProviders) :
           ~HasParen(cProviders[i].Name) /\ ~HasParen(cProviders[i].Alias)) =>
        DisplayKeysDistinct(cProviders)

(* Two blocks of one provider under different aliases, validated and        *)
(* normalized.                                                              *)
C26_Witness ==
    /\ cPc = "normalized"
    /\ cDiags = <<>>
    /\ Len(cProviders) = 2
    /\ cProviders[1].Name = << "a" >>
    /\ cProviders[2].Name = << "a" >>
    /\ cProviders[1].Alias = << "a" >>
    /\ cProviders[2].Alias = << "b" >>

----------------------------------------------------------------------------
(* The persisted record *)

(* C27: a persisted fetch-summary record is marked successful only if the   *)
(* provider's terminal status is Finished.                                  *)
C27_SuccessOnlyIfFinished ==
    \A p \in Providers : \A i \in 1..Len(saved[p]) :
        saved[p][i].record.IsSuccess => summary[p].Status = FetchFinished

(* C28: whenever doNormalizeResources returns an error diagnostic, from the *)
(* requested list or from the skip list, the list it returns is empty.      *)
C28_ErrorMeansNoNames ==
    (Normalized /\ HasErrors(nOut.diags)) => nOut.res = <<>>

====
